---- MODULE Spec2Model ----
(***************************************************************************)
(* Model of the `structur` attribute macro (src/src/lib.rs).               *)
(*                                                                         *)
(* One invocation takes a struct (an ordered list of fields, each with a   *)
(* list of attribute blocks hide(..) / show(..) / optional(..)) and the    *)
(* mappings pseudonym = GeneratedName, and returns a token stream that is  *)
(* a concatenation of generated structs and compile errors.                *)
(*                                                                         *)
(* Abstractions: a field is identified by its position in the struct (its  *)
(* name, visibility and span are functions of that position); a field type *)
(* is abstracted to "original" or "Option<original>"; an attribute whose   *)
(* path is not hide/show/optional is the category "other".  Attributes     *)
(* that are not meta lists and multi-segment names are not modelled.       *)
(***************************************************************************)
EXTENDS Integers, Sequences, FiniteSets, TLC

\* Size of the struct given to the macro: one unit per field, one per
\* attribute block, and one per pseudonym a block lists beyond its first.
MaxSize == 5

Pseudonyms == {"a", "b"}

Categories == {"hide", "show", "optional", "other"}

\* The generated struct name a pseudonym is mapped to (map_to of AttrArg).
GeneratedName(p) == IF p = "a" THEN "AView" ELSE "BView"

\* AttrArg: the HashMap pseudonym -> generated name built from the macro
\* arguments; its keys are any set of pseudonyms.
AttrArg == { [p \in S |-> GeneratedName(p)] : S \in SUBSET Pseudonyms }

----------------------------------------------------------------------------
\* The size of the struct read so far.

AttrSize(a) == IF Len(a.names) <= 1 THEN 1 ELSE Len(a.names)

RECURSIVE AttrListSize(_)
AttrListSize(attrs) ==
    IF attrs = <<>> THEN 0 ELSE AttrSize(Head(attrs)) + AttrListSize(Tail(attrs))

RECURSIVE StructSize(_)
StructSize(flds) ==
    IF flds = <<>> THEN 0 ELSE 1 + AttrListSize(Head(flds)) + StructSize(Tail(flds))

----------------------------------------------------------------------------
\* The program's data and pure functions.

\* enum Modifier, with the span of its identifier reduced to the field.
Modifier(kind, id, at) == [kind |-> kind, id |-> id, at |-> at]

\* syn::Error::new(span, message).to_compile_error(): msg is the kind of
\* message, at the field the span lies in, id the pseudonym in the message.
CompileError(msg, at, id) == [kind |-> "error", msg |-> msg, at |-> at, id |-> id]

\* The enumerations of a finite set: the orders a HashMap may iterate in.
Orders(S) ==
    { s \in [1..Cardinality(S) -> S] : \A i, j \in DOMAIN s : s[i] = s[j] => i = j }

\* names.iter().for_each(|n| ret.push(Modifier::K(n.clone())))
PushNames(ret, kind, names, at) ==
    ret \o [k \in 1..Len(names) |-> Modifier(kind, names[k], at)]

\* The guard of the "hide" arm (against = "Hide") and of the "show" arm
\* (against = "Show") of parse_modifiers.
\* (Faulty variant: only a show after a hide is caught.)
DoubleOverrideOneWay(has_explicit_vis, def_vis, against) ==
    has_explicit_vis /\ def_vis = against /\ against = "Show"

DoubleOverride(has_explicit_vis, def_vis, against) ==
    has_explicit_vis /\ def_vis = against

\* The loop of parse_modifiers from attribute k on.
RECURSIVE ParseLoop(_, _, _, _, _, _)
ParseLoop(attrs, k, ret, def_vis, has_explicit_vis, at) ==
    IF k > Len(attrs)
    THEN [ok |-> TRUE, mods |-> ret, default_vis |-> def_vis]
    ELSE LET id == attrs[k].id
             names == attrs[k].names
         IN CASE id = "hide" ->
                   IF DoubleOverride(has_explicit_vis, def_vis, "Hide")
                   THEN [ok |-> FALSE, err |-> << CompileError("double_visibility", at, "-") >>]
                   ELSE ParseLoop(attrs, k + 1, PushNames(ret, "Hide", names, at),
                                  "Show", TRUE, at)
              [] id = "show" ->
                   IF DoubleOverride(has_explicit_vis, def_vis, "Show")
                   THEN [ok |-> FALSE, err |-> << CompileError("double_visibility", at, "-") >>]
                   ELSE ParseLoop(attrs, k + 1, PushNames(ret, "Show", names, at),
                                  "Hide", TRUE, at)
              [] id = "optional" ->
                   ParseLoop(attrs, k + 1, PushNames(ret, "Optional", names, at),
                             def_vis, has_explicit_vis, at)
              [] OTHER ->
                   [ok |-> FALSE, err |-> << CompileError("unsupported_modifier", at, "-") >>]

\* parse_modifiers(field) for the field at position at.
parse_modifiers(attrs, at) == ParseLoop(attrs, 1, <<>>, "Show", FALSE, at)

\* (Faulty variant of symbol_mods: a hide directive matches every view.)
symbol_mods_any_hide(mods, id) ==
    [has_hide   |-> \E k \in DOMAIN mods : mods[k].kind = "Hide",
     has_show   |-> \E k \in DOMAIN mods : mods[k].kind = "Show" /\ mods[k].id = id,
     has_option |-> \E k \in DOMAIN mods : mods[k].kind = "Optional" /\ mods[k].id = id]

\* symbol_mods(mods, id)
symbol_mods(mods, id) ==
    [has_hide   |-> \E k \in DOMAIN mods : mods[k].kind = "Hide" /\ mods[k].id = id,
     has_show   |-> \E k \in DOMAIN mods : mods[k].kind = "Show" /\ mods[k].id = id,
     has_option |-> \E k \in DOMAIN mods : mods[k].kind = "Optional" /\ mods[k].id = id]

\* (Faulty variant of ValidateEntry: the hide/optional arm is missing.)
ValidateEntryShowHideOnly(mods, gen_name) ==
    LET has_hide == \E k \in DOMAIN mods : mods[k].kind = "Hide" /\ mods[k].id = gen_name
        has_show == \E k \in DOMAIN mods : mods[k].kind = "Show" /\ mods[k].id = gen_name
    IN IF has_show /\ has_hide
       THEN << CompileError("show_hide", mods[1].at, gen_name) >>
       ELSE <<>>

\* The filter_map closure of validate_modifiers on one entry of its map h:
\* <<error>> for Some(error), <<>> for None.  The span is that of the first
\* modifier naming gen_name (F.b).
ValidateEntry(mods, gen_name) ==
    LET a == symbol_mods(mods, gen_name)
        b == mods[CHOOSE k \in DOMAIN mods :
                    /\ mods[k].id = gen_name
                    /\ \A j \in 1..(k - 1) : mods[j].id # gen_name].at
    IN IF a.has_show /\ a.has_hide THEN << CompileError("show_hide", b, gen_name) >>
       ELSE IF a.has_hide /\ a.has_option THEN << CompileError("hide_optional", b, gen_name) >>
       ELSE <<>>

\* (Faulty variant of validate_modifiers: only the first error is returned.)
validate_modifiers_first(mods) ==
    LET h == { mods[k].id : k \in DOMAIN mods }
        bad == { n \in h : ValidateEntry(mods, n) # <<>> }
    IN IF bad = {} THEN { <<>> } ELSE { ValidateEntry(mods, n) : n \in bad }

\* validate_modifiers(mods): the error token streams it may return, <<>>
\* standing for Ok(()).  The errors come in the iteration order of the
\* HashMap h, which is arbitrary.
validate_modifiers(mods) ==
    LET h == { mods[k].id : k \in DOMAIN mods }
        bad == { n \in h : ValidateEntry(mods, n) # <<>> }
    IN { [k \in DOMAIN o |-> ValidateEntry(mods, o[k])[1]] : o \in Orders(bad) }

\* The match of the first closure of structur on one modifier: it names a
\* pseudonym that is no key of the mappings.
\* (Faulty variant: optional directives are not looked up.)
UndeclaredUnlessOptional(m, names) == m.kind # "Optional" /\ m.id \notin names

Undeclared(m, names) == m.id \notin names

\* The undefined-reference errors of one field (the filter_map over
\* mods.mods in the first closure of structur), in modifier order.
RECURSIVE UndeclaredErrors(_, _)
UndeclaredErrors(mods, names) ==
    IF mods = <<>> THEN <<>>
    ELSE LET m == Head(mods)
         IN (IF Undeclared(m, names)
             THEN << CompileError("undeclared", m.at, m.id) >>
             ELSE <<>>) \o UndeclaredErrors(Tail(mods), names)

\* The first closure of structur: one field to Ok(Entry) or Err(tokens).
FieldEntry(attrs, at, names) ==
    LET mods == parse_modifiers(attrs, at)
    IN IF ~mods.ok THEN mods
       ELSE LET errors == UndeclaredErrors(mods.mods, names)
            IN IF Len(errors) # 0
               THEN [ok |-> FALSE, err |-> errors]
               ELSE [ok |-> TRUE,
                     entry |-> [name |-> at, modifiers |-> mods.mods,
                                default_show |-> mods.default_vis]]

\* (Faulty variant of CollectEntries: the errors of all fields are gathered
\* instead of stopping at the first failing field.)
RECURSIVE CollectAllErrors(_, _, _, _)
CollectAllErrors(flds, k, acc, names) ==
    IF k > Len(flds)
    THEN IF \A j \in DOMAIN acc : acc[j].ok
         THEN [ok |-> TRUE, fields |-> [j \in DOMAIN acc |-> acc[j].entry]]
         ELSE LET F[j \in 0..Len(acc)] ==
                      IF j = 0 THEN <<>>
                      ELSE F[j - 1] \o (IF acc[j].ok THEN <<>> ELSE acc[j].err)
              IN [ok |-> FALSE, err |-> F[Len(acc)]]
    ELSE CollectAllErrors(flds, k + 1, Append(acc, FieldEntry(flds[k], k, names)), names)

\* .map(..).collect::<Result<Vec<_>, _>>() over parsed.fields from field k
\* on: the entries so far, or the first Err.
RECURSIVE CollectEntries(_, _, _, _)
CollectEntries(flds, k, acc, names) ==
    IF k > Len(flds) THEN [ok |-> TRUE, fields |-> acc]
    ELSE LET r == FieldEntry(flds[k], k, names)
         IN IF ~r.ok THEN r
            ELSE CollectEntries(flds, k + 1, Append(acc, r.entry), names)

\* (Faulty variant of Resolve: the default visibility of the field is not
\* consulted.)
ResolveDefaultShown(field, pseudo_name) ==
    LET modifiers == symbol_mods(field.modifiers, pseudo_name)
    IN IF modifiers.has_hide THEN "omit"
       ELSE IF modifiers.has_option THEN "option"
       ELSE "plain"

\* (Faulty variant of Resolve: show is tested before optional.)
ResolveShowFirst(field, pseudo_name) ==
    LET modifiers == symbol_mods(field.modifiers, pseudo_name)
    IN IF modifiers.has_hide THEN "omit"
       ELSE IF modifiers.has_show THEN "plain"
       ELSE IF modifiers.has_option THEN "option"
       ELSE IF field.default_show = "Hide" THEN "omit" ELSE "plain"

\* The resolution of one validated field for one view (the if/else chain
\* of the second closure): "omit", "plain" or "option".
Resolve(field, pseudo_name) ==
    LET modifiers == symbol_mods(field.modifiers, pseudo_name)
    IN IF modifiers.has_hide THEN "omit"
       ELSE IF modifiers.has_option THEN "option"
       ELSE IF modifiers.has_show THEN "plain"
       ELSE IF field.default_show = "Hide" THEN "omit" ELSE "plain"

\* (Faulty variant of FieldSource: the modifiers are not validated.)
FieldSourceUnchecked(field, pseudo_name) ==
    LET r == Resolve(field, pseudo_name)
    IN IF r = "omit" THEN { [tag |-> "omit"] }
       ELSE { [tag |-> "field",
               source |-> [name |-> field.name, option |-> (r = "option")]] }

\* (Faulty variant of FieldSource: only the conflicts that name the view
\* being generated are reported.)
FieldSourcePerView(field, pseudo_name) ==
    LET v == { e \in validate_modifiers(field.modifiers) :
                 \E k \in DOMAIN e : e[k].id = pseudo_name }
    IN IF v # {}
       THEN { [tag |-> "err", e |-> e] : e \in v }
       ELSE LET r == Resolve(field, pseudo_name)
            IN IF r = "omit" THEN { [tag |-> "omit"] }
               ELSE { [tag |-> "field",
                       source |-> [name |-> field.name, option |-> (r = "option")]] }

\* The second closure of structur for one field and one view: the results
\* it may return, [tag |-> "err", e |-> tokens], [tag |-> "omit"] or
\* [tag |-> "field", source |-> the field definition].
FieldSource(field, pseudo_name) ==
    LET v == validate_modifiers(field.modifiers)
    IN IF v # { <<>> }
       THEN { [tag |-> "err", e |-> e] : e \in v }
       ELSE LET r == Resolve(field, pseudo_name)
            IN IF r = "omit" THEN { [tag |-> "omit"] }
               ELSE { [tag |-> "field",
                       source |-> [name |-> field.name, option |-> (r = "option")]] }

\* filter_map(..).collect::<Result<Vec<_>, _>>() over fields from field k
\* on: the possible results, a field list or the first Err.
RECURSIVE FieldSources(_, _, _, _)
FieldSources(flds, k, acc, pseudo_name) ==
    IF k > Len(flds) THEN { [ok |-> TRUE, source |-> acc] }
    ELSE UNION { IF r.tag = "err" THEN { [ok |-> FALSE, err |-> r.e] }
                 ELSE IF r.tag = "omit" THEN FieldSources(flds, k + 1, acc, pseudo_name)
                 ELSE FieldSources(flds, k + 1, Append(acc, r.source), pseudo_name)
                 : r \in FieldSource(flds[k], pseudo_name) }

\* The token stream of one view: the generated struct or the error tokens.
ViewTokens(flds, pseudo_name, generated_name) ==
    { IF r.ok
      THEN << [kind |-> "struct", pseudo |-> pseudo_name, name |-> generated_name,
               source |-> r.source] >>
      ELSE r.err : r \in FieldSources(flds, 1, <<>>, pseudo_name) }

----------------------------------------------------------------------------
VARIABLES
    parsed,     \* the item: the struct's fields, each a list of attributes
    mappings,   \* the macro arguments
    pc,         \* "idle", "start", "emit" (res was Ok) or "done"
    fields,     \* the Ok value of res: one Entry per field
    pending,    \* keys of mappings that mappings.iter() has not yielded yet
    impls,      \* the token streams collected so far, one per view
    output      \* the returned token stream

vars == <<parsed, mappings, pc, fields, pending, impls, output>>

\* The compiler calls structur(args, item): nothing is parsed yet.
Init ==
    /\ parsed = <<>>
    /\ mappings = <<>>
    /\ pc = "idle"
    /\ fields = <<>>
    /\ pending = {}
    /\ impls = <<>>
    /\ output = <<>>

----------------------------------------------------------------------------
\* syn::parse::<syn::ItemStruct>(item) reads the item: the next field of the
\* struct begins.
ReadField ==
    /\ pc = "idle"
    /\ StructSize(parsed) < MaxSize
    /\ parsed' = Append(parsed, <<>>)
    /\ UNCHANGED <<mappings, pc, fields, pending, impls, output>>

\* The same: the next attribute block of the last field begins.
ReadAttr ==
    /\ pc = "idle"
    /\ parsed # <<>>
    /\ StructSize(parsed) < MaxSize
    /\ \E id \in Categories :
         parsed' = [parsed EXCEPT ![Len(parsed)] = Append(@, [id |-> id, names |-> <<>>])]
    /\ UNCHANGED <<mappings, pc, fields, pending, impls, output>>

\* The same: the next pseudonym of the last attribute block.  The names of a
\* block that is not hide, show or optional are never looked at, so none is
\* read.
ReadName ==
    /\ pc = "idle"
    /\ parsed # <<>>
    /\ LET f == Len(parsed)
           k == Len(parsed[f])
       IN /\ k > 0
          /\ parsed[f][k].id # "other"
          /\ Len(parsed[f][k].names) = 0 \/ StructSize(parsed) < MaxSize
          /\ \E p \in Pseudonyms :
               parsed' = [parsed EXCEPT ![f][k].names = Append(@, p)]
    /\ UNCHANGED <<mappings, pc, fields, pending, impls, output>>

\* The item is read to its end; syn::parse::<AttrArg>(args) gives the
\* mappings.
ParseArgs ==
    /\ pc = "idle"
    /\ mappings' \in AttrArg
    /\ pc' = "start"
    /\ UNCHANGED <<parsed, fields, pending, impls, output>>

\* let res = parsed.fields.iter().map(..).collect(), and the Err arm of the
\* match on res.
CollectErr ==
    /\ pc = "start"
    /\ LET res == CollectEntries(parsed, 1, <<>>, DOMAIN mappings)
       IN /\ ~res.ok
          /\ output' = res.err
    /\ pc' = "done"
    /\ UNCHANGED <<parsed, mappings, fields, pending, impls>>

\* The same, res being Ok(fields): the iteration over mappings starts.
CollectOk ==
    /\ pc = "start"
    /\ LET res == CollectEntries(parsed, 1, <<>>, DOMAIN mappings)
       IN /\ res.ok
          /\ fields' = res.fields
    /\ pending' = DOMAIN mappings
    /\ pc' = "emit"
    /\ UNCHANGED <<parsed, mappings, impls, output>>

\* One step of mappings.iter().map(..): the HashMap yields some key it has
\* not yielded yet and the view's tokens are collected.
EmitView ==
    /\ pc = "emit"
    /\ \E pseudo_name \in pending :
         /\ \E t \in ViewTokens(fields, pseudo_name, mappings[pseudo_name]) :
              impls' = Append(impls, t)
         /\ pending' = pending \ {pseudo_name}
    /\ UNCHANGED <<parsed, mappings, pc, fields, output>>

RECURSIVE Concat(_)
Concat(ss) == IF ss = <<>> THEN <<>> ELSE Head(ss) \o Concat(Tail(ss))

\* quote!( #(#impls)* ).into()
Finish ==
    /\ pc = "emit"
    /\ pending = {}
    /\ output' = Concat(impls)
    /\ pc' = "done"
    /\ UNCHANGED <<parsed, mappings, fields, pending, impls>>

Next ==
    \/ ReadField \/ ReadAttr \/ ReadName \/ ParseArgs
    \/ CollectErr \/ CollectOk \/ EmitView \/ Finish

Spec == Init /\ [][Next]_vars

----------------------------------------------------------------------------
\* Vocabulary of the properties: the struct as written, and the output.

Done == pc = "done"

Declared == DOMAIN mappings

FieldIds == DOMAIN parsed

\* Field i has an attribute block of category cat.
HasBlock(i, cat) == \E k \in DOMAIN parsed[i] : parsed[i][k].id = cat

\* Field i carries the directive cat(v).
Carries(i, cat, v) ==
    \E k \in DOMAIN parsed[i] :
        /\ parsed[i][k].id = cat
        /\ \E j \in DOMAIN parsed[i][k].names : parsed[i][k].names[j] = v

\* Some hide, show or optional directive of field i names v.
Names(i, v) == \E cat \in {"hide", "show", "optional"} : Carries(i, cat, v)

MixesHideShow(i) == HasBlock(i, "hide") /\ HasBlock(i, "show")

\* Field i is a list of hide, show and optional blocks without a hide/show
\* mix: parse_modifiers accepts it.
Parses(i) == ~MixesHideShow(i) /\ ~HasBlock(i, "other")

RefersUndeclared(i) == \E v \in Pseudonyms \ Declared : Names(i, v)

\* Field i lists v both in a hide and in an optional block.
Conflict(i, v) == Carries(i, "hide", v) /\ Carries(i, "optional", v)

HasConflict(i) == \E v \in Pseudonyms : Conflict(i, v)

\* Field i gets through the first pass over the fields.
PassesFirst(i) == Parses(i) /\ ~RefersUndeclared(i)

IsStruct(k) == output[k].kind = "struct"

IsError(k) == output[k].kind = "error"

NoStruct == \A k \in DOMAIN output : IsError(k)

NoError == \A k \in DOMAIN output : IsStruct(k)

\* Generation succeeded.
Succeeded == Done /\ NoError

\* The output holds the diagnostic e.
Reported(e) == \E k \in DOMAIN output : output[k] = e

\* The output holds a diagnostic with message msg.
ReportedMsg(msg) == \E k \in DOMAIN output : IsError(k) /\ output[k].msg = msg

\* The output holds a diagnostic with message msg about pseudonym v.
ReportedFor(msg, v) ==
    \E k \in DOMAIN output : IsError(k) /\ output[k].msg = msg /\ output[k].id = v

\* The output holds a diagnostic located in field i.
ReportedAt(i) == \E k \in DOMAIN output : IsError(k) /\ output[k].at = i

HasView(v) == \E k \in DOMAIN output : IsStruct(k) /\ output[k].pseudo = v

\* The view generated for v has field i, wrapped in Option iff option.
Present(i, v, option) ==
    \E k \in DOMAIN output :
        /\ IsStruct(k)
        /\ output[k].pseudo = v
        /\ \E j \in DOMAIN output[k].source :
               output[k].source[j] = [name |-> i, option |-> option]

\* A view is generated for v and it does not have field i.
Absent(i, v) ==
    /\ HasView(v)
    /\ \A k \in DOMAIN output :
           IsStruct(k) /\ output[k].pseudo = v =>
               \A j \in DOMAIN output[k].source : output[k].source[j].name # i

----------------------------------------------------------------------------
\* C1 as claimed: when generation succeeds, a field carrying hide(v) is
\* absent from the view of v and present with its original type in every
\* other declared view, whatever other hide or optional directives it has.
C1_AsClaimed ==
    Succeeded =>
        \A i \in FieldIds, v \in Pseudonyms :
            Carries(i, "hide", v) =>
                /\ Absent(i, v)
                /\ \A w \in Declared \ {v} : Present(i, w, FALSE)

\* C1 amended: when generation succeeds, a field carrying hide(v) is absent
\* from the view of v, and it is present in every other declared view w
\* that none of its hide directives names: wrapped in Option when one of its
\* optional directives names w, with its original type otherwise.
C1_HideHidesOnlyNamedViews ==
    Succeeded =>
        \A i \in FieldIds, v \in Pseudonyms :
            Carries(i, "hide", v) =>
                /\ Absent(i, v)
                /\ \A w \in Declared \ {v} :
                       ~Carries(i, "hide", w) =>
                           /\ Present(i, w, Carries(i, "optional", w))
                           /\ ~Present(i, w, ~Carries(i, "optional", w))

C1_Witness ==
    /\ Succeeded
    /\ \E i \in FieldIds, v \in Declared, w \in Declared :
           /\ v # w
           /\ Carries(i, "hide", v)
           /\ Absent(i, v)
           /\ Present(i, w, FALSE)

\* C2 as claimed: when generation succeeds, a field carrying show(v) is
\* present with its original type in the view of v and absent from every
\* other declared view, whatever other show or optional directives it has.
C2_AsClaimed ==
    Succeeded =>
        \A i \in FieldIds, v \in Pseudonyms :
            Carries(i, "show", v) =>
                /\ Present(i, v, FALSE)
                /\ \A w \in Declared \ {v} : Absent(i, w)

\* C2 amended: when generation succeeds, a field carrying show(v) is present
\* in the view of v, wrapped in Option when one of its optional directives
\* names v and with its original type otherwise, and it is absent from every
\* other declared view that none of its show or optional directives names.
C2_ShowShowsOnlyNamedViews ==
    Succeeded =>
        \A i \in FieldIds, v \in Pseudonyms :
            Carries(i, "show", v) =>
                /\ Present(i, v, Carries(i, "optional", v))
                /\ ~Present(i, v, ~Carries(i, "optional", v))
                /\ \A w \in Declared \ {v} :
                       ~Carries(i, "show", w) /\ ~Carries(i, "optional", w) =>
                           Absent(i, w)

C2_Witness ==
    /\ Succeeded
    /\ \E i \in FieldIds, v \in Declared, w \in Declared :
           /\ v # w
           /\ Carries(i, "show", v)
           /\ Present(i, v, FALSE)
           /\ Absent(i, w)

\* C3: when generation succeeds, the view of every declared pseudonym v has
\* each field carrying optional(v) wrapped in Option, whatever the field's
\* default policy and its hide/show directives naming other pseudonyms, and
\* a view that no optional directive of a field names never has that field
\* wrapped.
C3_OptionalWrapsExactlyNamedViews ==
    Succeeded =>
        \A i \in FieldIds, v \in Declared :
            /\ Carries(i, "optional", v) =>
                   Present(i, v, TRUE) /\ ~Present(i, v, FALSE)
            /\ ~Carries(i, "optional", v) => ~Present(i, v, TRUE)

C3_Witness ==
    /\ Succeeded
    /\ \E i \in FieldIds, v \in Declared, w \in Declared :
           /\ v # w
           /\ Carries(i, "optional", v)
           /\ Carries(i, "show", w)
           /\ Present(i, v, TRUE)
           /\ Present(i, w, FALSE)

\* C4 as claimed, for structs whose blocks are all hide, show or optional:
\* a field with a hide block and a show block always makes the invocation
\* return a contradiction diagnostic and no generated view; a field without
\* both never produces that diagnostic.
C4_AsClaimed ==
    Done /\ (\A j \in FieldIds : ~HasBlock(j, "other")) =>
        \A i \in FieldIds :
            /\ MixesHideShow(i) => ReportedMsg("double_visibility") /\ NoStruct
            /\ ~MixesHideShow(i) =>
                   ~Reported(CompileError("double_visibility", i, "-"))

\* C4 amended: a field with a hide block and a show block always leaves the
\* invocation without a generated view, and the invocation returns exactly
\* the contradiction diagnostic of that field when every field declared
\* before it passes parsing and the reference check and the field has only
\* hide, show and optional blocks; a field without both a hide and a show
\* block never produces that diagnostic.
C4_HideShowContradiction ==
    Done =>
        \A i \in FieldIds :
            /\ MixesHideShow(i) =>
                   /\ NoStruct
                   /\ output # <<>>
                   /\ (\A j \in 1..(i - 1) : PassesFirst(j)) /\ ~HasBlock(i, "other") =>
                          output = << CompileError("double_visibility", i, "-") >>
            /\ ~MixesHideShow(i) =>
                   ~Reported(CompileError("double_visibility", i, "-"))

C4_Witness ==
    /\ Done
    /\ \E i \in FieldIds :
           /\ HasBlock(i, "hide") /\ HasBlock(i, "show") /\ HasBlock(i, "optional")
           /\ output = << CompileError("double_visibility", i, "-") >>

\* C5 as claimed: a field listing the same pseudonym in a hide and in an
\* optional block always yields the hide/optional diagnostic for that
\* pseudonym and no generated view.
C5_AsClaimed ==
    Done =>
        \A i \in FieldIds, v \in Pseudonyms :
            Conflict(i, v) => ReportedFor("hide_optional", v) /\ NoStruct

\* C5 amended: a field listing the same pseudonym in a hide and in an
\* optional block always leaves the invocation with diagnostics and without
\* a generated view; the hide/optional diagnostic for that pseudonym is
\* among them when every field of the struct passes parsing and the
\* reference check and no field declared before it has a hide/optional
\* conflict, and then every diagnostic is a hide/optional one of that field.
C5_HideOptionalContradiction ==
    Done =>
        \A i \in FieldIds, v \in Pseudonyms :
            Conflict(i, v) =>
                /\ NoStruct
                /\ output # <<>>
                /\ (\A j \in FieldIds : PassesFirst(j))
                       /\ (\A j \in 1..(i - 1) : ~HasConflict(j)) =>
                       /\ Reported(CompileError("hide_optional", i, v))
                       /\ \A k \in DOMAIN output :
                              IsError(k) =>
                                  output[k].msg = "hide_optional" /\ output[k].at = i

C5_Witness ==
    /\ Done
    /\ \E i \in FieldIds, v \in Declared :
           /\ Conflict(i, v)
           /\ Reported(CompileError("hide_optional", i, v))

\* C6 as claimed: whenever a directive of a field names an undeclared
\* pseudonym, an undeclared-view diagnostic for that pseudonym is returned
\* and no view is generated; no undeclared-view diagnostic names a declared
\* pseudonym.
C6_AsClaimed ==
    Done =>
        /\ \A i \in FieldIds, v \in Pseudonyms \ Declared :
               Names(i, v) => ReportedFor("undeclared", v) /\ NoStruct
        /\ \A k \in DOMAIN output :
               IsError(k) /\ output[k].msg = "undeclared" => output[k].id \notin Declared

\* C6 amended: whenever a directive of a field names an undeclared
\* pseudonym, the invocation returns diagnostics and no generated view; the
\* undeclared-view diagnostic for that pseudonym is among them when the
\* field passes parsing and every field declared before it passes parsing
\* and the reference check; no undeclared-view diagnostic names a declared
\* pseudonym.
C6_UndeclaredView ==
    Done =>
        /\ \A i \in FieldIds, v \in Pseudonyms \ Declared :
               Names(i, v) =>
                   /\ NoStruct
                   /\ output # <<>>
                   /\ Parses(i) /\ (\A j \in 1..(i - 1) : PassesFirst(j)) =>
                          Reported(CompileError("undeclared", i, v))
        /\ \A k \in DOMAIN output :
               IsError(k) /\ output[k].msg = "undeclared" => output[k].id \notin Declared

C6_Witness ==
    /\ Done
    /\ Declared # {}
    /\ \E i \in FieldIds, v \in Pseudonyms \ Declared :
           /\ Carries(i, "optional", v)
           /\ Reported(CompileError("undeclared", i, v))

C8_AsClaimed ==
    Done =>
        \A i \in FieldIds :
            ReportedAt(i) =>
                /\ \A v \in Pseudonyms \ Declared :
                       Names(i, v) => Reported(CompileError("undeclared", i, v))
                /\ \A v \in Pseudonyms :
                       Conflict(i, v) => Reported(CompileError("hide_optional", i, v))
                /\ MixesHideShow(i) => Reported(CompileError("double_visibility", i, "-"))

\* C8 amended: the errors of one kind of the field the invocation fails on
\* are reported together, and errors of different kinds are never combined.
\* When the output has an undeclared-view diagnostic of the field, it has
\* one for every undeclared pseudonym the field names; when it has a
\* hide/optional diagnostic of the field, it has one for every pseudonym the
\* field lists in both hide and optional; and all diagnostics of the output
\* have the same kind.
C8_ErrorsOfOneKindBatched ==
    Done =>
        \A i \in FieldIds :
            ReportedAt(i) =>
                /\ ReportedMsg("undeclared") =>
                       \A v \in Pseudonyms \ Declared :
                           Names(i, v) => Reported(CompileError("undeclared", i, v))
                /\ ReportedMsg("hide_optional") =>
                       \A v \in Pseudonyms :
                           Conflict(i, v) => Reported(CompileError("hide_optional", i, v))
                /\ \A k, l \in DOMAIN output :
                       IsError(k) /\ IsError(l) => output[k].msg = output[l].msg

C8_Witness ==
    /\ Done
    /\ \E i \in FieldIds :
           /\ \A v \in Pseudonyms : Conflict(i, v)
           /\ \A v \in Pseudonyms : Reported(CompileError("hide_optional", i, v))

\* The outcome of field i in the view of v by the specified order: optional
\* first, then hide, then show, then the default policy (Hide once the field
\* has a show block, Show otherwise).
SpecifiedOutcome(i, v) ==
    IF Carries(i, "optional", v) THEN "option"
    ELSE IF Carries(i, "hide", v) THEN "omit"
    ELSE IF Carries(i, "show", v) THEN "plain"
    ELSE IF HasBlock(i, "show") THEN "omit" ELSE "plain"

\* C9: when generation succeeds, every field has in every declared view the
\* outcome the specified order (optional, hide, show, default policy) gives:
\* omitted, included with its original type, or included wrapped in Option.
C9_EmitterOrderAgreesWithSpecifiedOrder ==
    Succeeded =>
        \A i \in FieldIds, v \in Declared :
            /\ SpecifiedOutcome(i, v) = "omit" => Absent(i, v)
            /\ SpecifiedOutcome(i, v) = "plain" =>
                   Present(i, v, FALSE) /\ ~Present(i, v, TRUE)
            /\ SpecifiedOutcome(i, v) = "option" =>
                   Present(i, v, TRUE) /\ ~Present(i, v, FALSE)

C9_Witness ==
    /\ Succeeded
    /\ \E i \in FieldIds, v \in Declared, w \in Declared :
           /\ Carries(i, "optional", v)
           /\ Carries(i, "hide", w)
           /\ Present(i, v, TRUE)
           /\ Absent(i, w)

\* C10: the output of an invocation is either exactly one struct per
\* declared pseudonym and no diagnostic, or diagnostics only and no struct.
C10_AllOrNothing ==
    Done =>
        \/ /\ NoError
           /\ Len(output) = Cardinality(Declared)
           /\ \A v \in Declared : HasView(v)
        \/ /\ NoStruct
           /\ output # <<>>

C10_Witness ==
    /\ Done
    /\ NoStruct
    /\ \E i \in FieldIds, v \in Declared, w \in Declared :
           /\ v # w
           /\ Conflict(i, v)
           /\ ~Names(i, w)
           /\ Len(output) = 2

====
